---------------------------- MODULE Spec2Model ----------------------------
(***************************************************************************)
(* Geometric Tools (GTE) pairwise queries and the UniqueVerticesTriangles  *)
(* mesh utility, as state machines.  Every query is a pure function: a     *)
(* behaviour starts in a state that holds one call (the query, its         *)
(* arguments, and the default-constructed Result) and the query's action   *)
(* computes the returned Result.                                           *)
(*                                                                         *)
(* The scalar type T is modelled by the integers with exact arithmetic.    *)
(* A vector is a tuple of scalars, a matrix a tuple of rows; tuples are    *)
(* indexed from 1, so the source's v[0], axis[0], closest[0] are v[1],     *)
(* axis[1], closest[1] here.                                               *)
(***************************************************************************)
EXTENDS Integers, Sequences, FiniteSets

VARIABLES
    query,   \* which operation the call is
    args,    \* the arguments of the call
    sub,     \* the nested query a wrapper made: its arguments and its result
    result,  \* the Result object: default-constructed, then as returned
    pc       \* "call" before the operation has run, "done" after

vars == <<query, args, sub, result, pc>>

NoSub == <<>>

(***************************************************************************)
(* Bounds of the input domains.                                            *)
(***************************************************************************)
MaxCoord == 1
MaxRadius == 2
MaxBoxExtent == 1
MaxExtent == 2
MaxPoint == 3
MaxHeight == 2
MaxDen == 2
MaxSqrDist == 2
MaxTriangles == 2
MaxVertices == 3
MaxIndexTriangles == 1

Coord == (0 - MaxCoord)..MaxCoord

Vec3 == {<<x, y, z>> : x \in Coord, y \in Coord, z \in Coord}
UnitAxes == {<<1, 0, 0>>, <<-1, 0, 0>>, <<0, 1, 0>>, <<0, -1, 0>>,
             <<0, 0, 1>>, <<0, 0, -1>>}

\* Normals and directions: the six unit axes, and four directions that are
\* not normalized (the queries never normalize and never check the length).
Normals == UnitAxes \cup {<<1, 1, 0>>, <<0, -1, 1>>, <<1, 1, 1>>, <<-1, 1, -1>>}

(***************************************************************************)
(* Numeric substrate: the operations of T and Vector<N, T> the queries use *)
(***************************************************************************)
RECURSIVE DotFrom(_, _, _)
DotFrom(u, v, i) ==
    IF i > Len(u) THEN 0 ELSE u[i] * v[i] + DotFrom(u, v, i + 1)

Dot(u, v) == DotFrom(u, v, 1)

VecSub(u, v) == [i \in 1..Len(u) |-> u[i] - v[i]]

VecAdd(u, v) == [i \in 1..Len(u) |-> u[i] + v[i]]

fabs(x) == IF x < 0 THEN 0 - x ELSE x

max(x, y) == IF x < y THEN y ELSE x

MatVec(M, v) == [i \in 1..Len(M) |-> Dot(M[i], v)]

\* std::sqrt.  The root of an integer is in general no integer: the real number
\* sqrt(x) is represented by its radicand x, and the root of a negative number
\* is a NaN.
sqrt(x) ==
    IF x < 0 THEN [nan |-> TRUE, radicand |-> 0]
             ELSE [nan |-> FALSE, radicand |-> x]

\* static_cast<T>(0) where the value is later a root.
RealZero == [nan |-> FALSE, radicand |-> 0]

\* d <= r for an integer d and a root r; a comparison with a NaN is false.
LeqRoot(d, r) == ~r.nan /\ (d <= 0 \/ d * d <= r.radicand)

\* cosAngleSqr is a rational num/den with den > 0: c * x, and a >= q.
RatTimes(c, x) == [num |-> c.num * x, den |-> c.den]

GeqRat(a, q) == a * q.den >= q.num

(***************************************************************************)
(* TIQuery<T, Halfspace3<T>, Sphere3<T>>                                   *)
(***************************************************************************)
TIResult == [intersect |-> FALSE]

TIHalfspace3Sphere3_Strict(halfspace, sphere) ==
    LET center == Dot(halfspace.normal, sphere.center) - halfspace.constant
    IN  [TIResult EXCEPT !.intersect = (center + sphere.radius > 0)]

TIHalfspace3Sphere3(halfspace, sphere) ==
    LET center == Dot(halfspace.normal, sphere.center) - halfspace.constant
    IN  [TIResult EXCEPT !.intersect = (center + sphere.radius >= 0)]

Halfspaces == [normal : Normals, constant : Coord]

Spheres == [center : Vec3 \cup {<<-5, 0, 0>>, <<3, 0, 0>>}, radius : 0..MaxRadius]

InitHalfspaceSphere ==
    /\ query = "Halfspace3Sphere3"
    /\ args \in [halfspace : Halfspaces, sphere : Spheres]
    /\ sub = NoSub
    /\ result = TIResult
    /\ pc = "call"

CallHalfspaceSphere ==
    /\ pc = "call"
    /\ query = "Halfspace3Sphere3"
    /\ result' = TIHalfspace3Sphere3(args.halfspace, args.sphere)
    /\ pc' = "done"
    /\ UNCHANGED <<query, args, sub>>

(***************************************************************************)
(* TIQuery<T, Halfspace3<T>, OrientedBox3<T>>                              *)
(***************************************************************************)
TIHalfspace3OrientedBox3_OneAxis(halfspace, box) ==
    LET center == Dot(halfspace.normal, box.center) - halfspace.constant
        radius == fabs(box.extent[1] * Dot(halfspace.normal, box.axis[1]))
    IN  [TIResult EXCEPT !.intersect = (center + radius >= 0)]

TIHalfspace3OrientedBox3(halfspace, box) ==
    LET center == Dot(halfspace.normal, box.center) - halfspace.constant
        radius ==
            fabs(box.extent[1] * Dot(halfspace.normal, box.axis[1])) +
            fabs(box.extent[2] * Dot(halfspace.normal, box.axis[2])) +
            fabs(box.extent[3] * Dot(halfspace.normal, box.axis[3]))
    IN  [TIResult EXCEPT !.intersect = (center + radius >= 0)]

\* Orthonormal frames with integer entries: the identity, a cyclic
\* permutation of the axes, and a quarter turn about the third axis.
Frames == { << <<1, 0, 0>>, <<0, 1, 0>>, <<0, 0, 1>> >>,
            << <<0, 1, 0>>, <<0, 0, 1>>, <<1, 0, 0>> >>,
            << <<0, -1, 0>>, <<1, 0, 0>>, <<0, 0, 1>> >> }

BoxExtents == {<<x, y, z>> : x \in 0..MaxBoxExtent, y \in 0..MaxBoxExtent,
                             z \in 0..MaxBoxExtent}

OrientedBoxes == [center : Vec3, axis : Frames, extent : BoxExtents]

InitHalfspaceBox ==
    /\ query = "Halfspace3OrientedBox3"
    /\ args \in [halfspace : Halfspaces, box : OrientedBoxes]
    /\ sub = NoSub
    /\ result = TIResult
    /\ pc = "call"

CallHalfspaceBox ==
    /\ pc = "call"
    /\ query = "Halfspace3OrientedBox3"
    /\ result' = TIHalfspace3OrientedBox3(args.halfspace, args.box)
    /\ pc' = "done"
    /\ UNCHANGED <<query, args, sub>>

(***************************************************************************)
(* DCPQuery<Real, Vector3<Real>, Plane3<Real>>: the distance from a point  *)
(* to a plane Dot(normal, X) = constant.                                   *)
(***************************************************************************)
DCPPoint3Plane3(point, plane) ==
    LET signedDistance == Dot(plane.normal, point) - plane.constant
    IN  [signedDistance |-> signedDistance, distance |-> fabs(signedDistance)]

Planes == [normal : Normals, constant : Coord]

(***************************************************************************)
(* TIQuery<Real, Plane3<Real>, Capsule3<Real>>                             *)
(***************************************************************************)
TIPlane3Capsule3_NoStraddle(plane, capsule) ==
    LET sdistance0 == DCPPoint3Plane3(capsule.segment.p[1], plane).signedDistance
        sdistance1 == DCPPoint3Plane3(capsule.segment.p[2], plane).signedDistance
    IN  [TIResult EXCEPT !.intersect =
            fabs(sdistance0) <= capsule.radius \/ fabs(sdistance1) <= capsule.radius]

TIPlane3Capsule3(plane, capsule) ==
    LET sdistance0 == DCPPoint3Plane3(capsule.segment.p[1], plane).signedDistance
        sdistance1 == DCPPoint3Plane3(capsule.segment.p[2], plane).signedDistance
    IN  IF sdistance0 * sdistance1 <= 0
        THEN [TIResult EXCEPT !.intersect = TRUE]
        ELSE [TIResult EXCEPT !.intersect =
                 fabs(sdistance0) <= capsule.radius
                     \/ fabs(sdistance1) <= capsule.radius]

\* Segment directions: p[1] - p[0] has components in -1..1 (the zero segment,
\* a sphere, included).
SegmentDeltas == {<<x, y, z>> : x \in -1..1, y \in -1..1, z \in -1..1}

\* The grid capsules, the capsule with endpoints (0,0,-1) and (0,0,1), and that
\* capsule with radius 0.1 in units of 0.1 (endpoints (0,0,-10), (0,0,10),
\* radius 1).
Capsules ==
    {[segment |-> [p |-> <<p0, VecAdd(p0, d)>>], radius |-> r] :
        p0 \in Vec3, d \in SegmentDeltas, r \in 0..MaxRadius}
    \cup {[segment |-> [p |-> << <<0, 0, -1>>, <<0, 0, 1>> >>], radius |-> r] :
        r \in 0..MaxRadius}
    \cup {[segment |-> [p |-> << <<0, 0, -10>>, <<0, 0, 10>> >>], radius |-> 1]}

InitPlaneCapsule ==
    /\ query = "Plane3Capsule3"
    /\ args \in [plane : Planes, capsule : Capsules]
    /\ sub = NoSub
    /\ result = TIResult
    /\ pc = "call"

CallPlaneCapsule ==
    /\ pc = "call"
    /\ query = "Plane3Capsule3"
    /\ result' = TIPlane3Capsule3(args.plane, args.capsule)
    /\ pc' = "done"
    /\ UNCHANGED <<query, args, sub>>

(***************************************************************************)
(* TIQuery<Real, Plane3<Real>, Ellipsoid3<Real>>                           *)
(***************************************************************************)
\* Ellipsoid3::GetMInverse: the inverse of the shape matrix M.  The ellipsoid
\* is represented by its centre and that inverse.
GetMInverse(ellipsoid) == ellipsoid.MInverse

TIPlane3Ellipsoid3_NoClamp(plane, ellipsoid) ==
    LET MInverse == GetMInverse(ellipsoid)
        discr == Dot(plane.normal, MatVec(MInverse, plane.normal))
        root == sqrt(discr)
        distance == DCPPoint3Plane3(ellipsoid.center, plane).distance
    IN  [TIResult EXCEPT !.intersect = LeqRoot(distance, root)]

TIPlane3Ellipsoid3(plane, ellipsoid) ==
    LET MInverse == GetMInverse(ellipsoid)
        discr == Dot(plane.normal, MatVec(MInverse, plane.normal))
        root == sqrt(max(discr, 0))
        distance == DCPPoint3Plane3(ellipsoid.center, plane).distance
    IN  [TIResult EXCEPT !.intersect = LeqRoot(distance, root)]

\* Symmetric matrices: positive-definite ones, degenerate ones (a zero on the
\* diagonal) and malformed ones (a negative entry on the diagonal), for which
\* the quadratic form can be negative.
DiagVals == {-1, 0, 1, 4}

OffDiagVals == {0, 1}

SymMatrices ==
    {<< <<a, o, 0>>, <<o, b, 0>>, <<0, 0, c>> >> :
        a \in DiagVals, b \in DiagVals, c \in DiagVals, o \in OffDiagVals}

Ellipsoids == [center : Vec3, MInverse : SymMatrices]

InitPlaneEllipsoid ==
    /\ query = "Plane3Ellipsoid3"
    /\ args \in [plane : Planes, ellipsoid : Ellipsoids]
    /\ sub = NoSub
    /\ result = TIResult
    /\ pc = "call"

CallPlaneEllipsoid ==
    /\ pc = "call"
    /\ query = "Plane3Ellipsoid3"
    /\ result' = TIPlane3Ellipsoid3(args.plane, args.ellipsoid)
    /\ pc' = "done"
    /\ UNCHANGED <<query, args, sub>>

(***************************************************************************)
(* InContainer(Vector<N, Real>, Cone<N, Real>)                             *)
(***************************************************************************)
\* Cone::HeightInRange: h lies within the cone's height bounds.
HeightInRange(cone, h) == cone.minHeight <= h /\ h <= cone.maxHeight

InContainer_Or(point, cone) ==
    LET diff == VecSub(point, cone.ray.origin)
        h == Dot(cone.ray.direction, diff)
    IN  HeightInRange(cone, h)
            \/ GeqRat(h * h, RatTimes(cone.cosAngleSqr, Dot(diff, diff)))

InContainer_Open(point, cone) ==
    LET diff == VecSub(point, cone.ray.origin)
        h == Dot(cone.ray.direction, diff)
    IN  HeightInRange(cone, h)
            /\ ~GeqRat(0 - h * h, RatTimes(cone.cosAngleSqr, 0 - Dot(diff, diff)))

InContainer(point, cone) ==
    LET diff == VecSub(point, cone.ray.origin)
        h == Dot(cone.ray.direction, diff)
    IN  HeightInRange(cone, h)
            /\ GeqRat(h * h, RatTimes(cone.cosAngleSqr, Dot(diff, diff)))

ContainResult == [contains |-> FALSE]

CosAngleSqrs == {[num |-> n, den |-> d] : n \in 1..MaxDen, d \in 1..MaxDen} \
                    {q \in [num : 1..MaxDen, den : 1..MaxDen] : q.num > q.den}

Apexes == {<<0, 0, 0>>, <<1, 0, -1>>}

HeightBounds ==
    {[min |-> a, max |-> b] : a \in 0..MaxHeight, b \in 0..MaxHeight} \
        {hb \in [min : 0..MaxHeight, max : 0..MaxHeight] : hb.min > hb.max}

\* The grid cones (unit directions along the axes), and the cone with height
\* bounds [0, 10] about (0,0,1).
Cones ==
    {[ray |-> [origin |-> o, direction |-> d], cosAngleSqr |-> c,
      minHeight |-> hb.min, maxHeight |-> hb.max] :
        o \in Apexes, d \in UnitAxes, c \in CosAngleSqrs, hb \in HeightBounds}
    \cup {[ray |-> [origin |-> <<0, 0, 0>>, direction |-> <<0, 0, 1>>],
           cosAngleSqr |-> c, minHeight |-> 0, maxHeight |-> 10] :
        c \in CosAngleSqrs}

InitInContainer ==
    /\ query = "InContainer"
    /\ args \in [point : Vec3, cone : Cones]
    /\ sub = NoSub
    /\ result = ContainResult
    /\ pc = "call"

CallInContainer ==
    /\ pc = "call"
    /\ query = "InContainer"
    /\ result' = [contains |-> InContainer(args.point, args.cone)]
    /\ pc' = "done"
    /\ UNCHANGED <<query, args, sub>>

(***************************************************************************)
(* DCPQuery<T, Vector<N, T>, CanonicalBox<N, T>>                           *)
(***************************************************************************)
ZeroVec(n) == [i \in 1..n |-> 0]

\* Result(): distance 0, sqrDistance 0, closest { Zero, Zero }.
DCPResult(n) ==
    [distance |-> RealZero, sqrDistance |-> 0,
     closest |-> <<ZeroVec(n), ZeroVec(n)>>]

\* The loop over the axes, from axis i on.
RECURSIVE ClampAxes(_, _, _, _)
ClampAxes(point, box, res, i) ==
    IF i > Len(point) THEN res
    ELSE IF point[i] < 0 - box.extent[i]
    THEN LET delta == res.closest[2][i] + box.extent[i]
         IN  ClampAxes(point, box,
                 [res EXCEPT !.sqrDistance = @ + delta * delta,
                             !.closest[2][i] = 0 - box.extent[i]], i + 1)
    ELSE IF point[i] > box.extent[i]
    THEN LET delta == res.closest[2][i] - box.extent[i]
         IN  ClampAxes(point, box,
                 [res EXCEPT !.sqrDistance = @ + delta * delta,
                             !.closest[2][i] = box.extent[i]], i + 1)
    ELSE ClampAxes(point, box, res, i + 1)

DCPPointCanonicalBox_NoRoot(point, box) ==
    LET start == [DCPResult(Len(point)) EXCEPT !.closest = <<point, point>>,
                                               !.sqrDistance = 0]
        looped == ClampAxes(point, box, start, 1)
    IN  [looped EXCEPT !.distance = sqrt(looped.sqrDistance * looped.sqrDistance)]

DCPPointCanonicalBox_ToCorner(point, box) ==
    LET corner == [i \in 1..Len(point) |->
                      IF point[i] < 0 THEN 0 - box.extent[i] ELSE box.extent[i]]
        sqrDistance == DotFrom(VecSub(point, corner), VecSub(point, corner), 1)
    IN  [distance |-> sqrt(sqrDistance), sqrDistance |-> sqrDistance,
         closest |-> <<point, corner>>]

DCPPointCanonicalBox(point, box) ==
    LET start == [DCPResult(Len(point)) EXCEPT !.closest = <<point, point>>,
                                               !.sqrDistance = 0]
        looped == ClampAxes(point, box, start, 1)
    IN  [looped EXCEPT !.distance = sqrt(looped.sqrDistance)]

Dimensions == {2, 3}

PointCoord == (0 - MaxPoint)..MaxPoint

Points(n) == [1..n -> PointCoord]

CanonicalBoxes(n) == [extent : [1..n -> 0..MaxExtent]]

\* The grid inputs in 2D and 3D, and the point (5,0,0) with the box (2,2,2).
PointBoxArgs ==
    UNION {[point : Points(n), box : CanonicalBoxes(n)] : n \in Dimensions}
    \cup {[point |-> <<5, 0, 0>>, box |-> [extent |-> <<2, 2, 2>>]]}

InitPointBox ==
    /\ query = "PointCanonicalBox"
    /\ args \in PointBoxArgs
    /\ sub = NoSub
    /\ result = DCPResult(Len(args.point))
    /\ pc = "call"

CallPointBox ==
    /\ pc = "call"
    /\ query = "PointCanonicalBox"
    /\ result' = DCPPointCanonicalBox(args.point, args.box)
    /\ pc' = "done"
    /\ UNCHANGED <<query, args, sub>>

(***************************************************************************)
(* DCPQuery<T, Triangle3<T>, AlignedBox3<T>>                               *)
(***************************************************************************)
\* AlignedBox3::GetCenteredForm: the centre (max + min) / 2 and the extents
\* (max - min) / 2.  The boxes of the model have max - min even on every axis,
\* so both halves are exact.
GetCenteredForm(box) ==
    [center |-> [i \in 1..3 |-> (box.max[i] + box.min[i]) \div 2],
     extent |-> [i \in 1..3 |-> (box.max[i] - box.min[i]) \div 2]]

\* The arguments of the nested Triangle3-CanonicalBox3 query: the triangle
\* translated by -boxCenter and the canonical box of the extents.
TBQueryArgs(triangle, box) ==
    LET centered == GetCenteredForm(box)
        boxCenter == centered.center
    IN  [triangle |-> [v |-> <<VecSub(triangle.v[1], boxCenter),
                               VecSub(triangle.v[2], boxCenter),
                               VecSub(triangle.v[3], boxCenter)>>],
         cbox |-> [extent |-> centered.extent]]

DCPTriangle3AlignedBox3_OneBack(triangle, box, tbResult) ==
    LET boxCenter == GetCenteredForm(box).center
    IN  [tbResult EXCEPT !.closest[1] = VecAdd(@, boxCenter)]

\* The query, given what the nested query returned for TBQueryArgs.
DCPTriangle3AlignedBox3(triangle, box, tbResult) ==
    LET boxCenter == GetCenteredForm(box).center
    IN  [tbResult EXCEPT !.closest[1] = VecAdd(@, boxCenter),
                         !.closest[2] = VecAdd(@, boxCenter)]

Triangles ==
    {[v |-> << <<0, 0, 0>>, <<1, 0, 0>>, <<0, 1, 0>> >>],
     [v |-> << <<1, 1, 1>>, <<-1, 0, 1>>, <<0, -1, -1>> >>],
     [v |-> << <<2, 0, -1>>, <<0, 2, 0>>, <<-1, -1, 2>> >>],
     [v |-> << <<1, 0, 0>>, <<1, 0, 0>>, <<1, 0, 0>> >>]}

AlignedBoxes ==
    {[min |-> lo, max |-> [i \in 1..3 |-> lo[i] + 2 * e[i]]] :
        lo \in Vec3, e \in BoxExtents}

\* What the Triangle3-CanonicalBox3 query may return: its algorithm is not
\* part of this model, so any Result of a bounded set.
TBPoints == {<<0, 0, 0>>, <<1, -1, 2>>}

TBResults ==
    [distance : {sqrt(k) : k \in 0..MaxSqrDist}, sqrDistance : 0..MaxSqrDist,
     closest : TBPoints \X TBPoints]

InitTriangleBox ==
    /\ query = "Triangle3AlignedBox3"
    /\ args \in [triangle : Triangles, box : AlignedBoxes]
    /\ sub = NoSub
    /\ result = DCPResult(3)
    /\ pc = "call"

CallTriangleBox ==
    /\ pc = "call"
    /\ query = "Triangle3AlignedBox3"
    /\ \E tbResult \in TBResults :
          /\ sub' = [args |-> TBQueryArgs(args.triangle, args.box),
                     result |-> tbResult]
          /\ result' = DCPTriangle3AlignedBox3(args.triangle, args.box, tbResult)
    /\ pc' = "done"
    /\ UNCHANGED <<query, args>>

(***************************************************************************)
(* UniqueVerticesTriangles<VertexType>                                     *)
(*                                                                         *)
(* VertexType is a vertex with a key and a tag whose less-than compares    *)
(* the keys alone: two vertices with the same key are equivalent under the *)
(* ordering without being equal.  Index values are the program's (from 0); *)
(* the vertex with index k is at position k + 1 of its tuple.              *)
(***************************************************************************)
Vertices == {[key |-> 0, tag |-> 0], [key |-> 0, tag |-> 1], [key |-> 1, tag |-> 0],
             [key |-> 2, tag |-> 0]}

VertexLess(a, b) == a.key < b.key

Equivalent(a, b) == ~VertexLess(a, b) /\ ~VertexLess(b, a)

\* std::map::find: the entries of vmap whose key is equivalent to v (at most
\* one, as an entry is inserted only when none is found).
MapFind(vmap, v) == {e \in vmap : Equivalent(e.first, v)}

\* The loop of RemoveDuplicates from input position i on: the map, the mapping
\* written so far and numOutVertices.
RECURSIVE RemoveDuplicatesLoop(_, _, _, _, _)
RemoveDuplicatesLoop(inVertices, i, vmap, inToOutMapping, numOutVertices) ==
    IF i > Len(inVertices)
    THEN [vmap |-> vmap, inToOutMapping |-> inToOutMapping,
          numOutVertices |-> numOutVertices]
    ELSE LET iter == MapFind(vmap, inVertices[i])
         IN  IF iter # {}
             THEN RemoveDuplicatesLoop(inVertices, i + 1, vmap,
                      Append(inToOutMapping, (CHOOSE e \in iter : TRUE).second),
                      numOutVertices)
             ELSE RemoveDuplicatesLoop(inVertices, i + 1,
                      vmap \cup {[first |-> inVertices[i], second |-> numOutVertices]},
                      Append(inToOutMapping, numOutVertices),
                      numOutVertices + 1)

RemoveDuplicates_KeepAll(inVertices) ==
    [outVertices |-> inVertices,
     inToOutMapping |-> [i \in 1..Len(inVertices) |-> i - 1]]

RemoveDuplicates_SortedOrder(inVertices) ==
    LET looped == RemoveDuplicatesLoop(inVertices, 1, {}, <<>>, 0)
        rank(v) == Cardinality({e \in looped.vmap : VertexLess(e.first, v)})
    IN  [outVertices |->
             [k \in 1..looped.numOutVertices |->
                 (CHOOSE e \in looped.vmap : rank(e.first) = k - 1).first],
         inToOutMapping |-> [i \in 1..Len(inVertices) |-> rank(inVertices[i])]]

RemoveDuplicates(inVertices) ==
    LET looped == RemoveDuplicatesLoop(inVertices, 1, {}, <<>>, 0)
    IN  [outVertices |->
             [k \in 1..looped.numOutVertices |->
                 (CHOOSE e \in looped.vmap : e.second = k - 1).first],
         inToOutMapping |-> looped.inToOutMapping]

\* The outputs of a call: the caller's vectors, empty before the call, and
\* whether a LogAssert on the preconditions threw.
MeshResult == [threw |-> FALSE, outVertices |-> <<>>, outIndices |-> <<>>]

Threw == [MeshResult EXCEPT !.threw = TRUE]

ValidIndices(inVertices, inIndices) ==
    /\ Len(inVertices) > 0
    /\ Len(inIndices) > 0 /\ Len(inIndices) % 3 = 0
    /\ \A i \in 1..Len(inIndices) :
           0 <= inIndices[i] /\ inIndices[i] < Len(inVertices)

GenerateIndexedTriangles(inVertices) ==
    IF ~(Len(inVertices) > 0 /\ Len(inVertices) % 3 = 0) THEN Threw
    ELSE LET unique == RemoveDuplicates(inVertices)
         IN  [MeshResult EXCEPT !.outVertices = unique.outVertices,
                                !.outIndices = unique.inToOutMapping]

RemoveDuplicateVertices_NoRemap(inVertices, inIndices) ==
    IF ~ValidIndices(inVertices, inIndices) THEN Threw
    ELSE LET unique == RemoveDuplicates(inVertices)
         IN  [MeshResult EXCEPT !.outVertices = unique.outVertices,
                                !.outIndices = inIndices]

RemoveDuplicateVertices(inVertices, inIndices) ==
    IF ~ValidIndices(inVertices, inIndices) THEN Threw
    ELSE LET unique == RemoveDuplicates(inVertices)
         IN  [MeshResult EXCEPT
                 !.outVertices = unique.outVertices,
                 !.outIndices = [i \in 1..Len(inIndices) |->
                                    unique.inToOutMapping[inIndices[i] + 1]]]

\* The second loop of RemoveUnused: the used indices in increasing order, each
\* packed at the next output position and entered in the map.
RECURSIVE PackUsed(_, _, _, _)
PackUsed(inVertices, usedIndices, outVertices, vmap) ==
    IF usedIndices = {} THEN [outVertices |-> outVertices, vmap |-> vmap]
    ELSE LET oldIndex == CHOOSE u \in usedIndices : \A w \in usedIndices : u <= w
             numOutVertices == Len(outVertices)
         IN  PackUsed(inVertices, usedIndices \ {oldIndex},
                 Append(outVertices, inVertices[oldIndex + 1]),
                 vmap \cup {[first |-> oldIndex, second |-> numOutVertices]})

RemoveUnused_KeepAll(inVertices, inIndices) ==
    [outVertices |-> inVertices, outIndices |-> inIndices]

RemoveUnused(inVertices, inIndices) ==
    LET usedIndices == {inIndices[i] : i \in 1..Len(inIndices)}
        packed == PackUsed(inVertices, usedIndices, <<>>, {})
    IN  [outVertices |-> packed.outVertices,
         outIndices |-> [i \in 1..Len(inIndices) |->
             (CHOOSE e \in packed.vmap : e.first = inIndices[i]).second]]

RemoveUnusedVertices(inVertices, inIndices) ==
    IF ~ValidIndices(inVertices, inIndices) THEN Threw
    ELSE LET used == RemoveUnused(inVertices, inIndices)
         IN  [MeshResult EXCEPT !.outVertices = used.outVertices,
                                !.outIndices = used.outIndices]

RemoveDuplicateAndUnusedVertices_DuplicatesOnly(inVertices, inIndices) ==
    RemoveDuplicateVertices(inVertices, inIndices)

RemoveDuplicateAndUnusedVertices(inVertices, inIndices) ==
    LET temp == RemoveDuplicateVertices(inVertices, inIndices)
    IN  IF temp.threw THEN Threw
        ELSE RemoveUnusedVertices(temp.outVertices, temp.outIndices)

\* Tuples over S of the lengths in lens.
Tuples(S, lens) == UNION {[1..n -> S] : n \in lens}

\* A triangle soup: any number of vertices up to 3 * MaxTriangles (a number
\* that is no positive multiple of 3 fails the precondition).
Soups == Tuples(Vertices, 0..(3 * MaxTriangles))

\* A pool and an index array into it.  Pools of up to MaxVertices vertices and
\* arrays of up to MaxIndexTriangles triangles, with the calls that fail a
\* precondition among them: an empty pool, no indices, an incomplete triangle,
\* an index past the end of a shorter pool.
IndexedMeshes ==
    [inVertices : Tuples(Vertices, 0..MaxVertices),
     inIndices : Tuples(0..(MaxVertices - 1),
                        {0, 2} \cup {3 * k : k \in 1..MaxIndexTriangles})]

\* Calls with an index below 0.
NegativeIndexMeshes ==
    {[inVertices |-> <<v>>, inIndices |-> is] :
        v \in Vertices, is \in {<<-1, 0, 0>>, <<0, 0, -1>>}}

InitGenerate ==
    /\ query = "GenerateIndexedTriangles"
    /\ args \in [inVertices : Soups]
    /\ sub = NoSub
    /\ result = MeshResult
    /\ pc = "call"

InitIndexed(q) ==
    /\ query = q
    /\ (args \in IndexedMeshes \/ args \in NegativeIndexMeshes)
    /\ sub = NoSub
    /\ result = MeshResult
    /\ pc = "call"

CallGenerate ==
    /\ pc = "call"
    /\ query = "GenerateIndexedTriangles"
    /\ result' = GenerateIndexedTriangles(args.inVertices)
    /\ pc' = "done"
    /\ UNCHANGED <<query, args, sub>>

CallRemoveDuplicateVertices ==
    /\ pc = "call"
    /\ query = "RemoveDuplicateVertices"
    /\ result' = RemoveDuplicateVertices(args.inVertices, args.inIndices)
    /\ pc' = "done"
    /\ UNCHANGED <<query, args, sub>>

CallRemoveUnusedVertices ==
    /\ pc = "call"
    /\ query = "RemoveUnusedVertices"
    /\ result' = RemoveUnusedVertices(args.inVertices, args.inIndices)
    /\ pc' = "done"
    /\ UNCHANGED <<query, args, sub>>

CallRemoveDuplicateAndUnusedVertices ==
    /\ pc = "call"
    /\ query = "RemoveDuplicateAndUnusedVertices"
    /\ result' = RemoveDuplicateAndUnusedVertices(args.inVertices, args.inIndices)
    /\ pc' = "done"
    /\ UNCHANGED <<query, args, sub>>

(***************************************************************************)
(* Specifications                                                          *)
(***************************************************************************)
InitHalfspace == InitHalfspaceSphere \/ InitHalfspaceBox

NextHalfspace == CallHalfspaceSphere \/ CallHalfspaceBox

SpecHalfspace == InitHalfspace /\ [][NextHalfspace]_vars

InitPlane == InitPlaneCapsule \/ InitPlaneEllipsoid

NextPlane == CallPlaneCapsule \/ CallPlaneEllipsoid

SpecPlane == InitPlane /\ [][NextPlane]_vars

SpecCone == InitInContainer /\ [][CallInContainer]_vars

SpecPointBox == InitPointBox /\ [][CallPointBox]_vars

SpecTriangleBox == InitTriangleBox /\ [][CallTriangleBox]_vars

\* The test queries and the point-box distance query together.
InitTests == InitHalfspace \/ InitPlane \/ InitInContainer \/ InitPointBox

NextTests == NextHalfspace \/ NextPlane \/ CallInContainer \/ CallPointBox

SpecTests == InitTests /\ [][NextTests]_vars

InitMesh ==
    \/ InitGenerate
    \/ InitIndexed("RemoveDuplicateVertices")
    \/ InitIndexed("RemoveUnusedVertices")
    \/ InitIndexed("RemoveDuplicateAndUnusedVertices")

NextMesh ==
    \/ CallGenerate
    \/ CallRemoveDuplicateVertices
    \/ CallRemoveUnusedVertices
    \/ CallRemoveDuplicateAndUnusedVertices

SpecMesh == InitMesh /\ [][NextMesh]_vars

Init ==
    \/ InitHalfspace
    \/ InitPlane
    \/ InitInContainer
    \/ InitPointBox
    \/ InitTriangleBox
    \/ InitMesh

Next ==
    \/ NextHalfspace
    \/ NextPlane
    \/ CallInContainer
    \/ CallPointBox
    \/ CallTriangleBox
    \/ NextMesh

Spec == Init /\ [][Next]_vars

(***************************************************************************)
(* Claims                                                                  *)
(***************************************************************************)
Done(q) == pc = "done" /\ query = q

\* C1: the Halfspace3-Sphere3 test query reports intersect exactly when
\* dot(normal, center) - constant + radius >= 0; for the halfspace with normal
\* (1,0,0) and constant 0, the sphere of radius 2 centred at (-5,0,0) does not
\* intersect and the one centred at (3,0,0) does.
C1_HalfspaceSphereIff ==
    Done("Halfspace3Sphere3") =>
        LET n == args.halfspace.normal
            c == args.sphere.center
            proj == n[1] * c[1] + n[2] * c[2] + n[3] * c[3]
            ex == args.halfspace = [normal |-> <<1, 0, 0>>, constant |-> 0]
                      /\ args.sphere.radius = 2
        IN  /\ result.intersect
                <=> (proj - args.halfspace.constant + args.sphere.radius >= 0)
            /\ (ex /\ c = <<-5, 0, 0>>) => ~result.intersect
            /\ (ex /\ c = <<3, 0, 0>>) => result.intersect

C1_Witness ==
    /\ Done("Halfspace3Sphere3")
    /\ args.halfspace = [normal |-> <<1, 0, 0>>, constant |-> 0]
    /\ args.sphere = [center |-> <<-5, 0, 0>>, radius |-> 2]
    /\ ~result.intersect

\* C2: the Halfspace3-OrientedBox3 test query reports intersect exactly when
\* (dot(normal, center) - constant) plus the sum over the three axes of
\* |extent[i] * dot(normal, axis[i])| is >= 0.
C2_HalfspaceBoxIff ==
    Done("Halfspace3OrientedBox3") =>
        LET n == args.halfspace.normal
            b == args.box
            d(u, v) == u[1] * v[1] + u[2] * v[2] + u[3] * v[3]
            abs(x) == IF x >= 0 THEN x ELSE -x
            sum == abs(b.extent[1] * d(n, b.axis[1]))
                     + abs(b.extent[2] * d(n, b.axis[2]))
                     + abs(b.extent[3] * d(n, b.axis[3]))
        IN  result.intersect
                <=> ((d(n, b.center) - args.halfspace.constant) + sum >= 0)

\* A box whose centre alone is outside the halfspace and whose projection
\* radius, to which two axes contribute, brings it to intersect.
C2_Witness ==
    /\ Done("Halfspace3OrientedBox3")
    /\ result.intersect
    /\ Dot(args.halfspace.normal, args.box.center) - args.halfspace.constant = -2
    /\ fabs(args.box.extent[2] * Dot(args.halfspace.normal, args.box.axis[2])) = 1
    /\ fabs(args.box.extent[3] * Dot(args.halfspace.normal, args.box.axis[3])) = 1
    /\ fabs(args.box.extent[1] * Dot(args.halfspace.normal, args.box.axis[1])) = 0

\* C3: with s0 and s1 the plane's signed distances to the two capsule segment
\* endpoints, the Plane3-Capsule3 test query reports intersect whenever
\* s0 * s1 <= 0, whatever the radius, and otherwise exactly when |s0| <= radius
\* or |s1| <= radius; the plane with normal (0,0,1) and constant 0 intersects
\* the capsule with endpoints (0,0,-1) and (0,0,1).
C3_PlaneCapsule ==
    Done("Plane3Capsule3") =>
        LET n == args.plane.normal
            p0 == args.capsule.segment.p[1]
            p1 == args.capsule.segment.p[2]
            r == args.capsule.radius
            s0 == n[1] * p0[1] + n[2] * p0[2] + n[3] * p0[3] - args.plane.constant
            s1 == n[1] * p1[1] + n[2] * p1[2] + n[3] * p1[3] - args.plane.constant
            abs(x) == IF x >= 0 THEN x ELSE -x
        IN  /\ s0 * s1 <= 0 => result.intersect
            /\ s0 * s1 > 0 => (result.intersect <=> (abs(s0) <= r \/ abs(s1) <= r))
            /\ (/\ args.plane = [normal |-> <<0, 0, 1>>, constant |-> 0]
                /\ p0 = <<0, 0, -1>>
                /\ p1 = <<0, 0, 1>>) => result.intersect

\* The plane z = 0 and the segment from (0,0,-1) to (0,0,1) with radius 0:
\* neither endpoint is within the radius of the plane, and they intersect.
C3_Witness ==
    /\ Done("Plane3Capsule3")
    /\ args.plane = [normal |-> <<0, 0, 1>>, constant |-> 0]
    /\ args.capsule = [segment |-> [p |-> << <<0, 0, -1>>, <<0, 0, 1>> >>],
                       radius |-> 0]
    /\ result.intersect

\* C4: with diff = point - apex and h = dot(direction, diff), InContainer
\* returns true exactly when h lies within the height bounds and
\* h*h >= cosAngleSqr * dot(diff, diff); either condition alone does not
\* suffice, and the two conditions taken in the other order give the same
\* result.
C4_InContainerIff ==
    Done("InContainer") =>
        LET cone == args.cone
            diff == [i \in 1..3 |-> args.point[i] - cone.ray.origin[i]]
            d(u, v) == u[1] * v[1] + u[2] * v[2] + u[3] * v[3]
            h == d(cone.ray.direction, diff)
            heightOk == cone.minHeight <= h /\ h <= cone.maxHeight
            angleOk == h * h * cone.cosAngleSqr.den
                           >= cone.cosAngleSqr.num * d(diff, diff)
        IN  /\ result.contains <=> (heightOk /\ angleOk)
            /\ result.contains <=> (angleOk /\ heightOk)
            /\ (heightOk /\ ~angleOk) => ~result.contains
            /\ (angleOk /\ ~heightOk) => ~result.contains

\* The cone about (0,0,1) from the origin with cosAngleSqr 1/2 and heights
\* [0, 10] contains the point (1,0,1), which is on its surface.
C4_Witness ==
    /\ Done("InContainer")
    /\ args.point = <<1, 0, 1>>
    /\ args.cone = [ray |-> [origin |-> <<0, 0, 0>>, direction |-> <<0, 0, 1>>],
                    cosAngleSqr |-> [num |-> 1, den |-> 2],
                    minHeight |-> 0, maxHeight |-> 10]
    /\ result.contains

\* The sum over the axes 1..i of (u[i] - v[i])^2.
RECURSIVE SumSquares(_, _, _)
SumSquares(u, v, i) ==
    IF i = 0 THEN 0
    ELSE (u[i] - v[i]) * (u[i] - v[i]) + SumSquares(u, v, i - 1)

\* C5: the point-to-canonical-box query returns closest[0] = P and closest[1]
\* with the coordinate -e[i] where P[i] < -e[i], e[i] where P[i] > e[i] and
\* P[i] otherwise; sqrDistance is the sum over the axes of
\* (P[i] - closest[1][i])^2 and distance is its square root.  For the extents
\* (2,2,2) and the point (5,0,0) the closest box point is (2,0,0) and the
\* squared distance is 9.
C5_PointBoxClamp ==
    Done("PointCanonicalBox") =>
        LET P == args.point
            e == args.box.extent
            Y == result.closest[2]
        IN  /\ result.closest[1] = P
            /\ Len(Y) = Len(P)
            /\ \A i \in 1..Len(P) :
                   /\ P[i] < -e[i] => Y[i] = -e[i]
                   /\ P[i] > e[i] => Y[i] = e[i]
                   /\ (-e[i] <= P[i] /\ P[i] <= e[i]) => Y[i] = P[i]
            /\ result.sqrDistance = SumSquares(P, Y, Len(P))
            /\ ~result.distance.nan
            /\ result.distance.radicand = result.sqrDistance
            /\ (P = <<5, 0, 0>> /\ e = <<2, 2, 2>>)
                   => (Y = <<2, 0, 0>> /\ result.sqrDistance = 9)

C5_Witness ==
    /\ Done("PointCanonicalBox")
    /\ args.point = <<5, 0, 0>>
    /\ args.box.extent = <<2, 2, 2>>
    /\ result.closest = << <<5, 0, 0>>, <<2, 0, 0>> >>
    /\ result.sqrDistance = 9
    /\ result.distance = sqrt(9)

\* C6: with discr = dot(normal, MInverse * normal) and d the unsigned distance
\* from the ellipsoid centre to the plane, the Plane3-Ellipsoid3 test query
\* reports intersect exactly when d <= sqrt(max(discr, 0)), that is when
\* d*d <= max(discr, 0); with a negative discr it reports intersect exactly
\* when d = 0.
C6_PlaneEllipsoid ==
    Done("Plane3Ellipsoid3") =>
        LET n == args.plane.normal
            c == args.ellipsoid.center
            M == args.ellipsoid.MInverse
            discr == n[1] * (M[1][1] * n[1] + M[1][2] * n[2] + M[1][3] * n[3])
                       + n[2] * (M[2][1] * n[1] + M[2][2] * n[2] + M[2][3] * n[3])
                       + n[3] * (M[3][1] * n[1] + M[3][2] * n[2] + M[3][3] * n[3])
            s == n[1] * c[1] + n[2] * c[2] + n[3] * c[3] - args.plane.constant
            d == IF s >= 0 THEN s ELSE -s
            clamped == IF discr > 0 THEN discr ELSE 0
        IN  /\ result.intersect <=> (d * d <= clamped)
            /\ discr < 0 => (result.intersect <=> d = 0)

\* A malformed ellipsoid whose quadratic form is negative along the normal,
\* with its centre on the plane: reported as intersecting.
C6_Witness ==
    /\ Done("Plane3Ellipsoid3")
    /\ Dot(args.plane.normal, MatVec(args.ellipsoid.MInverse, args.plane.normal)) < 0
    /\ Dot(args.plane.normal, args.ellipsoid.center) = args.plane.constant
    /\ result.intersect

\* The boundary cases of the queries other than InContainer.
ClosedBoundaries ==
    /\ Done("Halfspace3Sphere3") =>
           (Dot(args.halfspace.normal, args.sphere.center)
                - args.halfspace.constant + args.sphere.radius = 0
            => result.intersect)
    /\ Done("Halfspace3OrientedBox3") =>
           LET n == args.halfspace.normal
               b == args.box
               maximum == Dot(n, b.center) - args.halfspace.constant
                            + fabs(b.extent[1] * Dot(n, b.axis[1]))
                            + fabs(b.extent[2] * Dot(n, b.axis[2]))
                            + fabs(b.extent[3] * Dot(n, b.axis[3]))
           IN  maximum = 0 => result.intersect
    /\ Done("Plane3Capsule3") =>
           LET s0 == Dot(args.plane.normal, args.capsule.segment.p[1])
                         - args.plane.constant
               s1 == Dot(args.plane.normal, args.capsule.segment.p[2])
                         - args.plane.constant
               r == args.capsule.radius
           IN  (s0 = 0 \/ s1 = 0 \/ fabs(s0) = r \/ fabs(s1) = r)
                   => result.intersect
    /\ Done("Plane3Ellipsoid3") =>
           LET n == args.plane.normal
               discr == Dot(n, MatVec(args.ellipsoid.MInverse, n))
               d == fabs(Dot(n, args.ellipsoid.center) - args.plane.constant)
           IN  d * d = max(discr, 0) => result.intersect
    /\ Done("PointCanonicalBox") =>
           LET P == args.point
               e == args.box.extent
           IN  (/\ \E i \in 1..Len(P) : fabs(P[i]) = e[i]
                /\ \A j \in 1..Len(P) : fabs(P[j]) <= e[j])
                   => (result.distance = RealZero /\ result.sqrDistance = 0)

\* C7 as stated: every test-kind query reports true on an exact boundary
\* configuration, and InContainer reports contained when h equals a height
\* bound or h*h equals cosAngleSqr * |diff|^2.
C7_ClosedAsStated ==
    /\ ClosedBoundaries
    /\ Done("InContainer") =>
           LET cone == args.cone
               diff == VecSub(args.point, cone.ray.origin)
               h == Dot(cone.ray.direction, diff)
           IN  (\/ h = cone.minHeight
                \/ h = cone.maxHeight
                \/ h * h * cone.cosAngleSqr.den
                       = cone.cosAngleSqr.num * Dot(diff, diff))
                   => result.contains

\* C7, amended: every test-kind query reports true on an exact boundary
\* configuration; InContainer reports contained when h equals a height bound
\* and the angle condition holds, and when h*h equals cosAngleSqr * |diff|^2
\* and h is within the height bounds.
C7_ClosedPrimitives ==
    /\ ClosedBoundaries
    /\ Done("InContainer") =>
           LET cone == args.cone
               diff == VecSub(args.point, cone.ray.origin)
               h == Dot(cone.ray.direction, diff)
               lhs == h * h * cone.cosAngleSqr.den
               rhs == cone.cosAngleSqr.num * Dot(diff, diff)
           IN  /\ ((h = cone.minHeight \/ h = cone.maxHeight)
                       /\ cone.minHeight <= h /\ h <= cone.maxHeight
                       /\ lhs >= rhs)
                   => result.contains
               /\ (lhs = rhs /\ cone.minHeight <= h /\ h <= cone.maxHeight)
                   => result.contains

\* A point at the upper height bound of a cone and on its surface, away from
\* the apex: contained.
C7_Witness ==
    /\ Done("InContainer")
    /\ LET cone == args.cone
           diff == VecSub(args.point, cone.ray.origin)
           h == Dot(cone.ray.direction, diff)
       IN  /\ h = cone.maxHeight
           /\ h > cone.minHeight
           /\ h * h * cone.cosAngleSqr.den = cone.cosAngleSqr.num * Dot(diff, diff)
           /\ cone.cosAngleSqr.num < cone.cosAngleSqr.den
    /\ result.contains

\* C8: the Triangle3-AlignedBox3 query returns the result of the
\* Triangle3-CanonicalBox3 query on the triangle translated by -c and the
\* canonical box of extents e (c the box centre, e its half-extents), with both
\* closest points translated back by +c and the distance and squared distance
\* unchanged; so translating the triangle and the box by the same vector t
\* gives the nested query the same arguments, translates both closest points
\* by t and leaves the distances unchanged.
Shifts == {<<1, 0, 0>>, <<0, -1, 2>>, <<-2, 1, 1>>, <<3, 3, -3>>}

ShiftTriangle(triangle, t) ==
    [v |-> <<VecAdd(triangle.v[1], t), VecAdd(triangle.v[2], t),
             VecAdd(triangle.v[3], t)>>]

ShiftBox(box, t) == [min |-> VecAdd(box.min, t), max |-> VecAdd(box.max, t)]

C8_TriangleBoxReduction ==
    Done("Triangle3AlignedBox3") =>
        LET tri == args.triangle
            c == [i \in 1..3 |-> (args.box.min[i] + args.box.max[i]) \div 2]
            e == [i \in 1..3 |-> (args.box.max[i] - args.box.min[i]) \div 2]
            plus(u, v) == <<u[1] + v[1], u[2] + v[2], u[3] + v[3]>>
            minus(u, v) == <<u[1] - v[1], u[2] - v[2], u[3] - v[3]>>
        IN  /\ \A i \in 1..3 : 2 * c[i] = args.box.min[i] + args.box.max[i]
            /\ sub.args.triangle.v
                   = <<minus(tri.v[1], c), minus(tri.v[2], c), minus(tri.v[3], c)>>
            /\ sub.args.cbox.extent = e
            /\ result.closest[1] = plus(sub.result.closest[1], c)
            /\ result.closest[2] = plus(sub.result.closest[2], c)
            /\ result.distance = sub.result.distance
            /\ result.sqrDistance = sub.result.sqrDistance
            /\ \A t \in Shifts :
                   LET tri2 == ShiftTriangle(tri, t)
                       box2 == ShiftBox(args.box, t)
                       res2 == DCPTriangle3AlignedBox3(tri2, box2, sub.result)
                   IN  /\ TBQueryArgs(tri2, box2) = sub.args
                       /\ res2.closest[1] = plus(result.closest[1], t)
                       /\ res2.closest[2] = plus(result.closest[2], t)
                       /\ res2.distance = result.distance
                       /\ res2.sqrDistance = result.sqrDistance

\* A box away from the origin, for which the nested query returned two
\* different closest points: both come back translated by the centre.
C8_Witness ==
    /\ Done("Triangle3AlignedBox3")
    /\ args.box = [min |-> <<-1, 0, 1>>, max |-> <<1, 2, 1>>]
    /\ sub.result.closest = << <<0, 0, 0>>, <<1, -1, 2>> >>
    /\ result.closest = << <<0, 1, 1>>, <<1, 0, 3>> >>
    /\ result.sqrDistance = 2

\* C9: after GenerateIndexedTriangles (inVertices.size() a positive multiple
\* of 3) and after RemoveDuplicateVertices (a non-empty pool, a positive
\* multiple of 3 of indices, every index in range) no two entries of outVertices
\* are equivalent under the vertex ordering, the output index array has as many
\* indices as the input (inVertices.size(), respectively inIndices.size()), and
\* every output index i satisfies 0 <= i < outVertices.size().
UniquePool(vs) ==
    \A j \in 1..Len(vs) : \A k \in 1..Len(vs) :
        j # k => (VertexLess(vs[j], vs[k]) \/ VertexLess(vs[k], vs[j]))

IndicesInRange(is, vs) ==
    \A i \in 1..Len(is) : 0 <= is[i] /\ is[i] < Len(vs)

C9_UniquePool ==
    /\ (Done("GenerateIndexedTriangles")
            /\ Len(args.inVertices) > 0 /\ Len(args.inVertices) % 3 = 0)
           => /\ ~result.threw
              /\ UniquePool(result.outVertices)
              /\ Len(result.outIndices) = Len(args.inVertices)
              /\ IndicesInRange(result.outIndices, result.outVertices)
    /\ (Done("RemoveDuplicateVertices")
            /\ Len(args.inVertices) > 0
            /\ Len(args.inIndices) > 0 /\ Len(args.inIndices) % 3 = 0
            /\ IndicesInRange(args.inIndices, args.inVertices))
           => /\ ~result.threw
              /\ UniquePool(result.outVertices)
              /\ Len(result.outIndices) = Len(args.inIndices)
              /\ IndicesInRange(result.outIndices, result.outVertices)

\* A pool of three vertices, two of them equivalent and not equal, reduced to
\* two vertices by RemoveDuplicateVertices.
C9_Witness ==
    /\ Done("RemoveDuplicateVertices")
    /\ args.inVertices = <<[key |-> 0, tag |-> 1], [key |-> 1, tag |-> 0],
                           [key |-> 0, tag |-> 0]>>
    /\ args.inIndices = <<2, 1, 0>>
    /\ Len(result.outVertices) = 2
    /\ result.outIndices = <<0, 1, 0>>

\* C10: after RemoveUnusedVertices on a non-empty pool with a positive multiple
\* of 3 of indices, all in range, outVertices is non-empty, outIndices has as
\* many indices as inIndices, every output index lies in
\* [0, outVertices.size()), every position of outVertices occurs in outIndices,
\* and outVertices.size() is the number of distinct input indices.
C10_NoUnused ==
    (Done("RemoveUnusedVertices")
         /\ Len(args.inVertices) > 0
         /\ Len(args.inIndices) > 0 /\ Len(args.inIndices) % 3 = 0
         /\ IndicesInRange(args.inIndices, args.inVertices))
        => /\ ~result.threw
           /\ Len(result.outVertices) > 0
           /\ Len(result.outIndices) = Len(args.inIndices)
           /\ IndicesInRange(result.outIndices, result.outVertices)
           /\ \A j \in 0..(Len(result.outVertices) - 1) :
                  \E i \in 1..Len(result.outIndices) : result.outIndices[i] = j
           /\ Len(result.outVertices)
                  = Cardinality({args.inIndices[i] : i \in 1..Len(args.inIndices)})

\* A pool of three vertices of which the triangle uses the last and the first:
\* the middle one is dropped and the indices renumbered.
C10_Witness ==
    /\ Done("RemoveUnusedVertices")
    /\ Len(args.inVertices) = 3
    /\ args.inIndices = <<2, 0, 2>>
    /\ result.outVertices = <<args.inVertices[1], args.inVertices[3]>>
    /\ result.outIndices = <<1, 0, 1>>

\* C11: RemoveDuplicateAndUnusedVertices is RemoveDuplicateVertices followed by
\* RemoveUnusedVertices on its outputs: on a non-empty pool with a positive
\* multiple of 3 of indices, all in range, the output pool has no two
\* equivalent vertices and every position of it occurs in outIndices,
\* outIndices has as many indices as inIndices and every output index lies in
\* [0, outVertices.size()); the second stage keeps the uniqueness the first
\* stage established.
C11_UniqueAndUsed ==
    (Done("RemoveDuplicateAndUnusedVertices")
         /\ Len(args.inVertices) > 0
         /\ Len(args.inIndices) > 0 /\ Len(args.inIndices) % 3 = 0
         /\ IndicesInRange(args.inIndices, args.inVertices))
        => LET first == RemoveDuplicateVertices(args.inVertices, args.inIndices)
               second == RemoveUnusedVertices(first.outVertices, first.outIndices)
           IN  /\ ~result.threw
               /\ ~first.threw /\ UniquePool(first.outVertices)
               /\ result = second
               /\ UniquePool(result.outVertices)
               /\ \A j \in 0..(Len(result.outVertices) - 1) :
                      \E i \in 1..Len(result.outIndices) : result.outIndices[i] = j
               /\ Len(result.outIndices) = Len(args.inIndices)
               /\ IndicesInRange(result.outIndices, result.outVertices)

\* A pool of three vertices with a duplicate of the first at the end and an
\* unused vertex in the middle: one vertex is left.
C11_Witness ==
    /\ Done("RemoveDuplicateAndUnusedVertices")
    /\ args.inVertices = <<[key |-> 0, tag |-> 1], [key |-> 1, tag |-> 0],
                           [key |-> 0, tag |-> 0]>>
    /\ args.inIndices = <<2, 0, 2>>
    /\ result.outVertices = <<[key |-> 0, tag |-> 1]>>
    /\ result.outIndices = <<0, 0, 0>>

\* The vertex each position of the index array referred to before the call:
\* inVertices[k] for the soup, inVertices[inIndices[k]] for an indexed mesh.
Referred(inVertices, inIndices) ==
    [k \in 1..Len(inIndices) |-> inVertices[inIndices[k] + 1]]

\* Every position k of outIndices has an index in range and
\* outVertices[outIndices[k]] equivalent to the vertex referred[k].
SameMesh(outVertices, outIndices, referred) ==
    /\ Len(outIndices) = Len(referred)
    /\ \A k \in 1..Len(outIndices) :
           /\ 0 <= outIndices[k] /\ outIndices[k] < Len(outVertices)
           /\ Equivalent(outVertices[outIndices[k] + 1], referred[k])

\* C12: every vertex-pool operation preserves the mesh it re-indexes: for every
\* position k of the index array, outVertices[outIndices[k]] is equivalent
\* under the vertex ordering to the input vertex the position referred to,
\* inVertices[k] for GenerateIndexedTriangles and inVertices[inIndices[k]] for
\* RemoveDuplicateVertices, RemoveUnusedVertices and
\* RemoveDuplicateAndUnusedVertices; for RemoveUnusedVertices it is the
\* identical vertex.
C12_MeshPreserved ==
    /\ (Done("GenerateIndexedTriangles") /\ ~result.threw)
           => SameMesh(result.outVertices, result.outIndices, args.inVertices)
    /\ (query \in {"RemoveDuplicateVertices", "RemoveUnusedVertices",
                   "RemoveDuplicateAndUnusedVertices"}
            /\ pc = "done" /\ ~result.threw)
           => SameMesh(result.outVertices, result.outIndices,
                       Referred(args.inVertices, args.inIndices))
    /\ (Done("RemoveUnusedVertices") /\ ~result.threw)
           => \A k \in 1..Len(result.outIndices) :
                  result.outVertices[result.outIndices[k] + 1]
                      = args.inVertices[args.inIndices[k] + 1]

\* A triangle on the second of two equivalent vertices and on a third vertex:
\* after RemoveDuplicateVertices its first corner is the first of the two,
\* equivalent to the corner it had and not equal to it.
C12_Witness ==
    /\ Done("RemoveDuplicateVertices")
    /\ args.inVertices = <<[key |-> 0, tag |-> 0], [key |-> 0, tag |-> 1],
                           [key |-> 2, tag |-> 0]>>
    /\ args.inIndices = <<1, 2, 1>>
    /\ result.outIndices = <<0, 1, 0>>
    /\ result.outVertices[result.outIndices[1] + 1] = [key |-> 0, tag |-> 0]
    /\ result.outVertices[result.outIndices[1] + 1]
           # args.inVertices[args.inIndices[1] + 1]

\* The first position of vs that holds a vertex equivalent to vs[i].
FirstOf(vs, i) ==
    CHOOSE j \in 1..i :
        /\ Equivalent(vs[j], vs[i])
        /\ \A h \in 1..(j - 1) : ~Equivalent(vs[h], vs[i])

\* The positions of vs at which a scan from the first position meets a class
\* for the first time.
FirstPositions(vs) ==
    {j \in 1..Len(vs) : \A h \in 1..(j - 1) : ~Equivalent(vs[h], vs[j])}

\* The number, from 0, of the class first met at position j of firsts, the
\* classes numbered in the order of their first positions.
ClassNumber(firsts, j) == Cardinality({h \in firsts : h < j})

\* The mapping that sends every position of vs to the number of its class.
FirstOccurrenceMapping(vs) ==
    LET firsts == FirstPositions(vs)
    IN  [i \in 1..Len(vs) |-> ClassNumber(firsts, FirstOf(vs, i))]

\* outVertices holds one vertex for each class of vs, at the position the
\* number of the class gives, and it is the first vertex found of the class.
FirstOccurrencePool(vs, outVertices) ==
    LET firsts == FirstPositions(vs)
    IN  /\ Len(outVertices) = Cardinality(firsts)
        /\ \A j \in firsts : outVertices[ClassNumber(firsts, j) + 1] = vs[j]

\* C13: RemoveDuplicates numbers the unique vertices in order of first
\* occurrence: outVertices[k] is the first input vertex of the k-th distinct
\* equivalence class met when scanning inVertices from index 0 upward and every
\* later duplicate is mapped to the output index of that first-found vertex, so
\* the output is determined by the input order alone; applied to a pool without
\* duplicates it returns the same pool in the same order with the identity
\* mapping.  (GenerateIndexedTriangles returns the pair as it is,
\* RemoveDuplicateVertices returns the pool and the indices sent through the
\* mapping.)
C13_FirstOccurrence ==
    /\ (Done("GenerateIndexedTriangles") /\ ~result.threw)
           => /\ FirstOccurrencePool(args.inVertices, result.outVertices)
              /\ result.outIndices = FirstOccurrenceMapping(args.inVertices)
              /\ UniquePool(args.inVertices)
                     => /\ result.outVertices = args.inVertices
                        /\ result.outIndices
                               = [i \in 1..Len(args.inVertices) |-> i - 1]
    /\ (Done("RemoveDuplicateVertices") /\ ~result.threw)
           => /\ FirstOccurrencePool(args.inVertices, result.outVertices)
              /\ LET inToOutMapping == FirstOccurrenceMapping(args.inVertices)
                 IN  result.outIndices
                         = [k \in 1..Len(args.inIndices) |->
                               inToOutMapping[args.inIndices[k] + 1]]
              /\ UniquePool(args.inVertices)
                     => /\ result.outVertices = args.inVertices
                        /\ result.outIndices = args.inIndices

\* A soup whose first vertex has the larger key and whose other two are
\* equivalent and not equal: the pool is in input order, not key order, and
\* keeps the first found of the two.
C13_Witness ==
    /\ Done("GenerateIndexedTriangles")
    /\ args.inVertices = <<[key |-> 1, tag |-> 0], [key |-> 0, tag |-> 1],
                           [key |-> 0, tag |-> 0]>>
    /\ result.outVertices = <<[key |-> 1, tag |-> 0], [key |-> 0, tag |-> 1]>>
    /\ result.outIndices = <<0, 1, 1>>

\* No point Y of the box, on the grid of half-integer coordinates, is closer to
\* P than the squared distance d: 4 * d <= |2P - 2Y|^2 for every 2Y with
\* |2Y[i]| <= 2 * e[i], the axes taken from i on with acc the sum so far.
RECURSIVE NoBoxPointCloser(_, _, _, _, _)
NoBoxPointCloser(P, e, d, i, acc) ==
    IF i > Len(P) THEN 4 * d <= acc
    ELSE \A y \in (0 - 2 * e[i])..(2 * e[i]) :
             NoBoxPointCloser(P, e, d, i + 1,
                              acc + (2 * P[i] - y) * (2 * P[i] - y))

\* C14: for every point P and canonical box with non-negative extents the
\* point-to-canonical-box query returns a closest[1] that lies in the box,
\* |closest[1][i]| <= extent[i] on every axis, and a sqrDistance equal to the
\* minimum of |P - Y|^2 over the box points Y (it is the squared distance to
\* closest[1] and no box point is closer); when P lies in the box,
\* closest[1] = P and sqrDistance = distance = 0.
C14_ClosestInBox ==
    (Done("PointCanonicalBox")
         /\ \A i \in 1..Len(args.point) : args.box.extent[i] >= 0)
        => LET P == args.point
               e == args.box.extent
               Y == result.closest[2]
           IN  /\ Len(Y) = Len(P)
               /\ \A i \in 1..Len(P) : fabs(Y[i]) <= e[i]
               /\ result.sqrDistance = SumSquares(P, Y, Len(P))
               /\ NoBoxPointCloser(P, e, result.sqrDistance, 1, 0)
               /\ (\A i \in 1..Len(P) : fabs(P[i]) <= e[i])
                      => /\ Y = P
                         /\ result.sqrDistance = 0
                         /\ result.distance = RealZero

\* A point outside the box on two axes and inside on the third, nearest to an
\* edge of the box.
C14_Witness ==
    /\ Done("PointCanonicalBox")
    /\ args.point = <<3, -2, 0>>
    /\ args.box.extent = <<1, 1, 2>>
    /\ result.closest[2] = <<1, -1, 0>>
    /\ result.sqrDistance = 5

=============================================================================
